---- MODULE Spec2Model ----
(***************************************************************************)
(* Visit lifecycle of the gym/spa front desk: the customer table, the      *)
(* visit ledger and the scan history held by DataService, BarcodeService   *)
(* and VisitorsService, and the operations that open and close visits.     *)
(*                                                                         *)
(* Time is the wall clock in milliseconds since the epoch.  A timestamp is *)
(* the ISO-8601 string of an instant with millisecond precision            *)
(* (Date.prototype.toISOString) and is parsed back with new Date(string),  *)
(* so a timestamp is modelled by its millisecond count.  A handler reads   *)
(* the clock several times while it runs; the model gives every read of    *)
(* one handler the same instant.  Strings that the code inspects character *)
(* by character (barcodes, customer ids, visit ids) are sequences of       *)
(* one-character strings.                                                  *)
(***************************************************************************)
EXTENDS Integers, Sequences, FiniteSets, TLC

VARIABLES
    customers,      \* DataService.customers: array of customer objects
    visits,         \* DataService.visits: the visit ledger, in insertion order
    nextVisitId,    \* DataService.nextVisitId
    scanHistory,    \* BarcodeService.scanHistory
    now,            \* the wall clock, ms
    steps,          \* state-changing calls and clock advances so far
    limit,          \* the number of such steps a run is followed for
    result,         \* the object returned by the most recent call
    customersData,  \* the array imported from customers.json: its objects
    aliased,        \* positions of DataService.customers that hold the very
                    \* object of customersData (same reference)
    issued,         \* every visitId the ledger has held since startup
    cachedStats,    \* StatisticsService.cachedStats, by date
    stats,          \* the statistics returned by the most recent call
    tz,             \* local time minus UTC of the process, ms
    calls           \* the calls that were started and wait at an await

vars == <<customers, visits, nextVisitId, scanHistory, now, steps, limit,
          result, customersData, aliased, issued, cachedStats, stats, tz,
          calls>>

-----------------------------------------------------------------------------
(* Bounds of the model *)

\* a run holds at most this many state-changing calls and clock advances
\* (calls that are rejected change nothing and are not counted)
MaxSteps == 3
MaxResetSteps == 4
MaxStatsSteps == 4
MaxHistorySteps == 3

\* a run holds at most this many calls that wait at an await
MaxCalls == 3

-----------------------------------------------------------------------------
(* Program constants *)

MsPerSecond == 1000
SecondsPerMinute == 60
MinutesPerHour == 60
HoursPerDay == 24
MinLength == 8
MaxLength == 12
GraceDays == 7
HistoryLimit == 100
DuplicateWindowMs == 5000
PadWidth == 3

MsPerMinute == MsPerSecond * SecondsPerMinute
MsPerDay == MsPerMinute * MinutesPerHour * HoursPerDay

\* null / undefined for timestamps, durations and visit ids
Null == -1
\* a date string that new Date() cannot parse (getTime() is NaN)
InvalidDate == -2
\* the `type` of a result object that carries no type field
NoType == "undefined"

-----------------------------------------------------------------------------
(* Strings *)

DigitChars == <<"0", "1", "2", "3", "4", "5", "6", "7", "8", "9">>
Digits == {DigitChars[i] : i \in 1..10}

\* String.prototype.trim
RECURSIVE trimStart(_)
trimStart(s) ==
    IF s # <<>> /\ Head(s) = " " THEN trimStart(Tail(s)) ELSE s

RECURSIVE trimEnd(_)
trimEnd(s) ==
    IF s # <<>> /\ s[Len(s)] = " " THEN trimEnd(SubSeq(s, 1, Len(s) - 1)) ELSE s

trim(s) == trimEnd(trimStart(s))

\* Number.prototype.toString for a natural number
RECURSIVE toString(_)
toString(n) ==
    IF n < 10 THEN <<DigitChars[n + 1]>>
    ELSE toString(n \div 10) \o <<DigitChars[(n % 10) + 1]>>

\* String.prototype.padStart(width, '0')
RECURSIVE padStart(_, _)
padStart(s, width) ==
    IF Len(s) >= width THEN s ELSE padStart(<<"0">> \o s, width)

\* `visit${n.toString().padStart(3, '0')}`
VisitIdOf(n) == <<"v", "i", "s", "i", "t">> \o padStart(toString(n), PadWidth)

-----------------------------------------------------------------------------
(* validators.js *)

validateCustomerId(customerId) ==
    /\ customerId # <<>>
    /\ Len(customerId) >= MinLength
    /\ Len(customerId) <= MaxLength
    /\ \A i \in 1..Len(customerId) : customerId[i] \in Digits

\* the format of the identifier is not checked
validateBarcode_AnyFormat(barcode) ==
    /\ barcode # <<>>
    /\ Len(trim(barcode)) # 0

validateBarcode(barcode) ==
    /\ barcode # <<>>
    /\ Len(trim(barcode)) # 0
    /\ validateCustomerId(trim(barcode))

validateDate(date) == date # Null /\ date # InvalidDate

validateDateRange(startDate, endDate) ==
    /\ validateDate(startDate)
    /\ validateDate(endDate)
    /\ ~(endDate <= startDate)

\* personalInfo is opaque to the core: infoOk stands for the outcome of the
\* name, email, phone and date-of-birth checks
validateCustomerData(customerData) ==
    /\ validateCustomerId(customerData.customerId)
    /\ customerData.infoOk
    /\ validateDate(customerData.membership.startDate)
    /\ validateDate(customerData.membership.endDate)
    /\ validateDateRange(customerData.membership.startDate,
                         customerData.membership.endDate)

-----------------------------------------------------------------------------
(* dateUtils.js *)

\* Math.round in place of Math.floor
Floor_Round(a, b) == (2 * a + b) \div (2 * b)

\* Math.floor(a / b) for b > 0 (TLA+ \div rounds towards minus infinity)
Floor(a, b) == a \div b

calculateDuration(startTime, endTime) ==
    IF startTime = Null THEN 0 ELSE Floor(endTime - startTime, MsPerMinute)

\* new Date().toISOString().split('T')[0]: the UTC calendar day
DateOf(t) == t \div MsPerDay

\* dateObj.toDateString(): the calendar day of an instant in local time
LocalDateOf(t, offset) == (t + offset) \div MsPerDay

\* isToday of a 'YYYY-MM-DD' string: new Date(date) is midnight UTC of that
\* day, and both sides are rendered in local time
isToday(date, t, offset) ==
    IF date = Null THEN FALSE
    ELSE LocalDateOf(date * MsPerDay, offset) = LocalDateOf(t, offset)

\* the comparison the wrong way round
isSubscriptionExpired_Reversed(endDate, t) ==
    IF endDate = Null THEN TRUE
    ELSE IF endDate = InvalidDate THEN FALSE
    ELSE endDate > t

\* comparisons with an Invalid Date (NaN) are false
isSubscriptionExpired(endDate, t) ==
    IF endDate = Null THEN TRUE
    ELSE IF endDate = InvalidDate THEN FALSE
    ELSE endDate < t

\* the end of the warning window is left out of it
isSubscriptionExpiringSoon_Strict(endDate, gracePeriodDays, t) ==
    IF endDate = Null THEN FALSE
    ELSE IF endDate = InvalidDate THEN FALSE
    ELSE endDate < t + gracePeriodDays * MsPerDay /\ endDate >= t

isSubscriptionExpiringSoon(endDate, gracePeriodDays, t) ==
    IF endDate = Null THEN FALSE
    ELSE IF endDate = InvalidDate THEN FALSE
    ELSE endDate <= t + gracePeriodDays * MsPerDay /\ endDate >= t

-----------------------------------------------------------------------------
(* Records *)

\* the services argument left out by the caller (undefined)
NoServices == <<"undefined">>
DefaultServices == <<"gym">>

CurrentVisit(isInside, entryTime, exitTime) ==
    [isInside |-> isInside, entryTime |-> entryTime, exitTime |-> exitTime]

Membership(type, status, startDate, endDate) ==
    [type |-> type, status |-> status, startDate |-> startDate, endDate |-> endDate]

\* one entry of BarcodeService.scanHistory (its random id and the customer
\* name are left out)
ScanEntry(customerId, action, timestamp, services, duration, reason, override) ==
    [customerId |-> customerId, action |-> action, timestamp |-> timestamp,
     services |-> services, duration |-> duration, reason |-> reason,
     isEmergencyOverride |-> override]

\* the object a call returns, tagged with the entry point that was called
\* (op); customerId is the customer the object names.  repeated is set by
\* ManualEntryExit alone: the call repeats the successful call before it
Outcome(op, customerId, success, type) ==
    [op |-> op, customerId |-> customerId,
     success |-> success, type |-> type,
     visitId |-> <<>>, entryTime |-> Null, exitTime |-> Null, duration |-> Null,
     services |-> <<>>, reason |-> "", isEmergencyOverride |-> FALSE,
     warnings |-> 0, repeated |-> FALSE]

\* the mutable state of the services as one value
State ==
    [customers |-> customers, visits |-> visits, nextVisitId |-> nextVisitId,
     scanHistory |-> scanHistory]

-----------------------------------------------------------------------------
(* DataService *)

\* Array.prototype.findIndex on customerId, 0 when there is none
CustomerIndex(cs, customerId) ==
    IF \E i \in 1..Len(cs) : cs[i].customerId = customerId
    THEN CHOOSE i \in 1..Len(cs) :
            /\ cs[i].customerId = customerId
            /\ \A j \in 1..(i - 1) : cs[j].customerId # customerId
    ELSE 0

hasCustomer(st, customerId) == CustomerIndex(st.customers, customerId) # 0

getCustomerById(st, customerId) ==
    st.customers[CustomerIndex(st.customers, customerId)]

isCustomerIdUnique(st, customerId) == ~hasCustomer(st, customerId)

addCustomer(st, customerData) ==
    [st EXCEPT !.customers = Append(@,
        [customerId |-> customerData.customerId,
         membership |-> customerData.membership,
         currentVisit |-> CurrentVisit(FALSE, Null, Null)])]

\* DataService.updateCustomer: { ...this.customers[index], ...updates }; of
\* the fields of updates the model keeps those a customer object has here
DataService_updateCustomer(st, customerId, updates) ==
    [st EXCEPT !.customers[CustomerIndex(st.customers, customerId)] =
        [f \in DOMAIN @ |-> IF f \in DOMAIN updates THEN updates[f] ELSE @[f]]]

\* the status is written to a copy of the customer: the table keeps the old one
updateCustomerVisitStatus_OnCopy(st, customerId, isInside, entryTime, exitTime) ==
    st

updateCustomerVisitStatus(st, customerId, isInside, entryTime, exitTime) ==
    [st EXCEPT !.customers[CustomerIndex(st.customers, customerId)].currentVisit =
        CurrentVisit(isInside, entryTime, exitTime)]

\* the filter on exitTime is left out
CurrentVisitIndexes_Unfiltered(vs) == 1..Len(vs)

\* indexes of the visits with exitTime === null, in ledger order
CurrentVisitIndexes(vs) == {i \in 1..Len(vs) : vs[i].exitTime = Null}

\* the first open visit of the ledger, whoever it belongs to
CurrentVisitIndex_AnyCustomer(vs, customerId) ==
    LET open == CurrentVisitIndexes(vs)
    IN  IF open = {} THEN 0
        ELSE CHOOSE i \in open : \A j \in open : i <= j

\* getCurrentVisits().find(v => v.customerId === customerId), 0 when none
CurrentVisitIndex(vs, customerId) ==
    LET open == {i \in CurrentVisitIndexes(vs) : vs[i].customerId = customerId}
    IN  IF open = {} THEN 0
        ELSE CHOOSE i \in open : \A j \in open : i <= j

\* getVisitById: the first visit with that id, 0 when none
VisitIndex(vs, visitId) ==
    LET same == {i \in 1..Len(vs) : vs[i].visitId = visitId}
    IN  IF same = {} THEN 0
        ELSE CHOOSE i \in same : \A j \in same : i <= j

\* the services of the visit are not taken from visitData
addVisit_NoServices(st, visitData, t) ==
    [st EXCEPT
        !.visits = Append(@,
            [visitId |-> VisitIdOf(st.nextVisitId),
             customerId |-> visitData.customerId,
             entryTime |-> IF visitData.entryTime = Null THEN t
                           ELSE visitData.entryTime,
             exitTime |-> visitData.exitTime,
             duration |-> IF visitData.duration = 0 THEN Null
                          ELSE visitData.duration,
             services |-> <<>>,
             date |-> visitData.date]),
        !.nextVisitId = @ + 1]

addVisit(st, visitData, t) ==
    [st EXCEPT
        !.visits = Append(@,
            [visitId |-> VisitIdOf(st.nextVisitId),
             customerId |-> visitData.customerId,
             entryTime |-> IF visitData.entryTime = Null THEN t
                           ELSE visitData.entryTime,
             exitTime |-> visitData.exitTime,
             duration |-> IF visitData.duration = 0 THEN Null
                          ELSE visitData.duration,
             services |-> visitData.services,
             date |-> visitData.date]),
        !.nextVisitId = @ + 1]

\* the duration is stored and the exit time is not
endVisit_NoExitTime(st, visitId, exitTime) ==
    LET i == VisitIndex(st.visits, visitId)
    IN  [st EXCEPT
            !.visits[i].duration =
                Floor(exitTime - st.visits[i].entryTime, MsPerMinute)]

endVisit(st, visitId, exitTime) ==
    LET i == VisitIndex(st.visits, visitId)
    IN  [st EXCEPT
            !.visits[i].exitTime = exitTime,
            !.visits[i].duration =
                Floor(exitTime - st.visits[i].entryTime, MsPerMinute)]

\* resetData: the arrays are copied from the imported arrays anew.  The
\* copies are shallow: customersNow and visitsNow are the imported objects
\* with the content they have at the call.
resetData(st, customersNow, visitsNow) ==
    [st EXCEPT !.customers = customersNow,
               !.visits = visitsNow,
               !.nextVisitId = Len(visitsNow) + 1]

\* getVisitsByDate: the positions of the visits with that date, in order
getVisitsByDate(st, date) ==
    SelectSeq([i \in 1..Len(st.visits) |-> i], LAMBDA i : st.visits[i].date = date)

\* reduce((sum, v) => sum + (v.duration || 0), 0) over the visits at idx
RECURSIVE SumDurations(_, _)
SumDurations(vs, idx) ==
    IF idx = <<>> THEN 0
    ELSE (IF vs[Head(idx)].duration = Null THEN 0 ELSE vs[Head(idx)].duration)
         + SumDurations(vs, Tail(idx))

\* the quotient is cut off instead of rounded
Round_Truncated(a, b) == a \div b

\* Math.round(a / b) for a >= 0, b > 0: halves go up
Round(a, b) == (2 * a + b) \div (2 * b)

getVisitStatsByDate(st, date) ==
    LET dayVisits == getVisitsByDate(st, date)
        completedVisits ==
            SelectSeq(dayVisits, LAMBDA i : st.visits[i].exitTime # Null)
    IN  [totalVisits |-> Len(dayVisits),
         completedVisits |-> Len(completedVisits),
         currentlyInside |-> Len(dayVisits) - Len(completedVisits),
         totalDuration |-> SumDurations(st.visits, completedVisits),
         averageDuration |->
             IF Len(completedVisits) > 0
             THEN Round(SumDurations(st.visits, completedVisits),
                        Len(completedVisits))
             ELSE 0]

MsPerHour == MsPerMinute * MinutesPerHour

\* new Date(t).getHours(): the hour of the local day, offset being local
\* time minus UTC
getHours(t, offset) == ((t + offset) % MsPerDay) \div MsPerHour

\* getHourlyVisitStats: for every hour of the day the number of visits of
\* the date entered in that hour and the number left in that hour
getHourlyVisitStats(st, date, offset) ==
    LET dayVisits == getVisitsByDate(st, date)
    IN  [hour \in 0..(HoursPerDay - 1) |->
            [entries |->
                Len(SelectSeq(dayVisits, LAMBDA i :
                        getHours(st.visits[i].entryTime, offset) = hour)),
             exits |->
                Len(SelectSeq(dayVisits, LAMBDA i :
                        /\ st.visits[i].exitTime # Null
                        /\ getHours(st.visits[i].exitTime, offset) = hour))]]

\* the visits of the date that are completed are the only ones counted
getMembershipTypeStats_CompletedOnly(st, date) ==
    LET dayVisits == getVisitsByDate(st, date)
        count(type) ==
            Len(SelectSeq(dayVisits, LAMBDA i :
                    /\ st.visits[i].exitTime # Null
                    /\ hasCustomer(st, st.visits[i].customerId)
                    /\ getCustomerById(st, st.visits[i].customerId).membership.type = type))
    IN  [daily |-> count("daily"), monthly |-> count("monthly"),
         annual |-> count("annual")]

\* getMembershipTypeStats: the visits of the date by the membership type
\* the customer has when the statistics are asked for; a visit whose
\* customer is not found or has another type is in no count
getMembershipTypeStats(st, date) ==
    LET dayVisits == getVisitsByDate(st, date)
        count(type) ==
            Len(SelectSeq(dayVisits, LAMBDA i :
                    /\ hasCustomer(st, st.visits[i].customerId)
                    /\ getCustomerById(st, st.visits[i].customerId).membership.type = type))
    IN  [daily |-> count("daily"), monthly |-> count("monthly"),
         annual |-> count("annual")]

\* services.includes(service)
includes(services, service) ==
    \E k \in 1..Len(services) : services[k] = service

\* getServiceStats: both when the services of a visit include gym and spa,
\* else gym when they include gym, else spa when they include spa, else
\* the visit is in no count
getServiceStats(st, date) ==
    LET dayVisits == getVisitsByDate(st, date)
        gym(i) == includes(st.visits[i].services, "gym")
        spa(i) == includes(st.visits[i].services, "spa")
    IN  [gym |-> Len(SelectSeq(dayVisits, LAMBDA i : gym(i) /\ ~spa(i))),
         spa |-> Len(SelectSeq(dayVisits, LAMBDA i : spa(i) /\ ~gym(i))),
         both |-> Len(SelectSeq(dayVisits, LAMBDA i : gym(i) /\ spa(i)))]

\* the customers flagged inside, each with the first open visit of that
\* customer in the ledger (0 when there is none)
getCurrentVisitors(st) ==
    {[customerId |-> st.customers[i].customerId,
      currentVisitData |-> CurrentVisitIndex(st.visits, st.customers[i].customerId)] :
        i \in {k \in 1..Len(st.customers) : st.customers[k].currentVisit.isInside}}

-----------------------------------------------------------------------------
(* CustomerService *)

\* the subscription check of a scan: isValid and the number of warnings
validateSubscription(customer, t) ==
    LET membership == customer.membership
        isExpired == isSubscriptionExpired(membership.endDate, t)
        isExpiringSoon == isSubscriptionExpiringSoon(membership.endDate, GraceDays, t)
        isSuspended == membership.status = "suspended"
    IN  [isValid |-> IF isSuspended THEN FALSE
                     ELSE IF isExpired THEN FALSE
                     ELSE ~isExpired /\ ~isSuspended,
         isExpired |-> isExpired,
         isExpiringSoon |-> isExpiringSoon,
         isSuspended |-> isSuspended,
         warnings |-> IF ~isSuspended /\ ~isExpired /\ isExpiringSoon THEN 1 ELSE 0]

\* subscriptionStatus computed by enrichCustomerData
subscriptionStatus(customer, t) ==
    LET membership == customer.membership
        isExpired == isSubscriptionExpired(membership.endDate, t)
        isExpiringSoon == isSubscriptionExpiringSoon(membership.endDate, GraceDays, t)
        isSuspended == membership.status = "suspended"
    IN  [isValid |-> ~isExpired /\ ~isSuspended /\ membership.status = "active",
         isExpired |-> isExpired,
         isExpiringSoon |-> isExpiringSoon,
         isSuspended |-> isSuspended]

\* a failed call: the state is left as it is; the result object holds
\* success: false, a message and (for some failures) a type
Reject(st, op, type) ==
    [st |-> st, res |-> Outcome(op, <<>>, FALSE, type)]

registerCustomer(st, customerData) ==
    IF ~validateCustomerData(customerData)
    THEN Reject(st, "register", NoType)
    ELSE IF ~isCustomerIdUnique(st, customerData.customerId)
    THEN Reject(st, "register", NoType)
    ELSE [st |-> addCustomer(st, customerData),
          res |-> Outcome("register", customerData.customerId, TRUE, NoType)]

\* CustomerService.updateCustomer: the merged object is validated, then the
\* updates are spread over the stored object.  infoOk of updates stands for
\* the validity of a personalInfo it carries; the stored one is valid.
updateCustomer(st, customerId, updates) ==
    IF customerId = <<>>
    THEN Reject(st, "update", NoType)
    ELSE IF ~hasCustomer(st, customerId)
    THEN Reject(st, "update", NoType)
    ELSE
    LET existingCustomer == getCustomerById(st, customerId)
        updatedCustomerData ==
            [customerId |-> IF "customerId" \in DOMAIN updates
                            THEN updates.customerId
                            ELSE existingCustomer.customerId,
             membership |-> IF "membership" \in DOMAIN updates
                            THEN updates.membership
                            ELSE existingCustomer.membership,
             infoOk |-> IF "infoOk" \in DOMAIN updates THEN updates.infoOk
                        ELSE TRUE]
    IN  IF ~validateCustomerData(updatedCustomerData)
        THEN Reject(st, "update", NoType)
        ELSE [st |-> DataService_updateCustomer(st, customerId, updates),
              res |-> Outcome("update", updatedCustomerData.customerId, TRUE,
                              NoType)]

-----------------------------------------------------------------------------
(* BarcodeService *)

\* the first 100 entries are kept: slice(0, 100)
addToScanHistory_KeepsOldest(st, scanData) ==
    LET pushed == Append(st.scanHistory, scanData)
    IN  [st EXCEPT !.scanHistory =
            IF Len(pushed) > HistoryLimit
            THEN SubSeq(pushed, 1, HistoryLimit)
            ELSE pushed]

\* addToScanHistory: push, then slice(-100) when the array is longer
addToScanHistory(st, scanData) ==
    LET pushed == Append(st.scanHistory, scanData)
    IN  [st EXCEPT !.scanHistory =
            IF Len(pushed) > HistoryLimit
            THEN SubSeq(pushed, Len(pushed) - HistoryLimit + 1, Len(pushed))
            ELSE pushed]

\* getScanHistory(limit), limit >= 0: slice(-limit).reverse(), the latest
\* limit entries with the most recent first; slice(-0) is the whole array
getScanHistory(history, historyLimit) ==
    LET from == IF historyLimit = 0 \/ historyLimit > Len(history) THEN 1
                ELSE Len(history) - historyLimit + 1
        slice == SubSeq(history, from, Len(history))
    IN  [j \in 1..Len(slice) |-> slice[Len(slice) - j + 1]]

processEntry(st, op, customer, services, t) ==
    LET entryTime == t
        visitData == [customerId |-> customer.customerId,
                      entryTime |-> entryTime,
                      exitTime |-> Null,
                      duration |-> Null,
                      services |-> services,
                      date |-> DateOf(t)]
        st1 == addVisit(st, visitData, t)
        st2 == updateCustomerVisitStatus(st1, customer.customerId, TRUE, entryTime, Null)
        st3 == addToScanHistory(st2,
                  ScanEntry(customer.customerId, "entry", entryTime, services,
                            Null, "", FALSE))
    IN  [st |-> st3,
         res |-> [Outcome(op, customer.customerId, TRUE, "entry") EXCEPT
                    !.visitId = st1.visits[Len(st1.visits)].visitId,
                    !.entryTime = entryTime,
                    !.services = services]]

processExit(st, op, customer, t) ==
    IF ~customer.currentVisit.isInside
    THEN Reject(st, op, "not_inside")
    ELSE
    LET exitTime == t
        entryTime == customer.currentVisit.entryTime
        i == CurrentVisitIndex(st.visits, customer.customerId)
    IN  IF i = 0
        THEN Reject(st, op, "no_active_visit")
        ELSE
        LET duration == calculateDuration(entryTime, exitTime)
            st1 == endVisit(st, st.visits[i].visitId, exitTime)
            st2 == updateCustomerVisitStatus(st1, customer.customerId, FALSE, Null,
                                             exitTime)
            st3 == addToScanHistory(st2,
                      ScanEntry(customer.customerId, "exit", exitTime, <<>>,
                                duration, "", FALSE))
        IN  [st |-> st3,
             res |-> [Outcome(op, customer.customerId, TRUE, "exit") EXCEPT
                        !.visitId = st.visits[i].visitId,
                        !.entryTime = entryTime,
                        !.exitTime = exitTime,
                        !.duration = duration]]

processBarcodeEntry(st, barcode, servicesArg, t) ==
    LET services == IF servicesArg = NoServices THEN DefaultServices ELSE servicesArg
        customerId == trim(barcode)
    IN  IF ~validateBarcode(barcode)
        THEN Reject(st, "scan", "validation_error")
        ELSE IF ~hasCustomer(st, customerId)
        THEN Reject(st, "scan", "customer_not_found")
        ELSE
        LET customer == getCustomerById(st, customerId)
            subscriptionResult == validateSubscription(customer, t)
        IN  IF ~subscriptionResult.isValid
            THEN [st |-> st,
                  res |-> [Outcome("scan", customerId, FALSE,
                                   "subscription_invalid") EXCEPT
                             !.warnings = subscriptionResult.warnings]]
            ELSE IF customer.currentVisit.isInside
            THEN processExit(st, "scan", customer, t)
            ELSE processEntry(st, "scan", customer, services, t)

\* the stated intent is not compared with where the customer is
manualEntryExit_IntentIgnored(st, customerId, action, servicesArg, t) ==
    LET services == IF servicesArg = NoServices THEN DefaultServices ELSE servicesArg
    IN  IF customerId = <<>>
        THEN Reject(st, "manual", NoType)
        ELSE IF action \notin {"entry", "exit"}
        THEN Reject(st, "manual", NoType)
        ELSE IF ~hasCustomer(st, customerId)
        THEN Reject(st, "manual", NoType)
        ELSE
        LET customer == getCustomerById(st, customerId)
        IN  IF action = "entry"
            THEN processEntry(st, "manual", customer, services, t)
            ELSE processExit(st, "manual", customer, t)

manualEntryExit(st, customerId, action, servicesArg, t) ==
    LET services == IF servicesArg = NoServices THEN DefaultServices ELSE servicesArg
    IN  IF customerId = <<>>
        THEN Reject(st, "manual", NoType)
        ELSE IF action \notin {"entry", "exit"}
        THEN Reject(st, "manual", NoType)
        ELSE IF ~hasCustomer(st, customerId)
        THEN Reject(st, "manual", NoType)
        ELSE
        LET customer == getCustomerById(st, customerId)
        IN  IF action = "entry"
            THEN IF customer.currentVisit.isInside
                 THEN Reject(st, "manual", "already_inside")
                 ELSE processEntry(st, "manual", customer, services, t)
            ELSE IF ~customer.currentVisit.isInside
                 THEN Reject(st, "manual", "not_inside")
                 ELSE processExit(st, "manual", customer, t)

\* the override is routed through the ordinary scan
emergencyOverride_ViaScan(st, customerId, reason, t) ==
    processBarcodeEntry(st, customerId, NoServices, t)

emergencyOverride(st, customerId, reason, t) ==
    IF customerId = <<>> \/ reason = ""
    THEN Reject(st, "emergency", NoType)
    ELSE IF ~hasCustomer(st, customerId)
    THEN Reject(st, "emergency", NoType)
    ELSE
    LET customer == getCustomerById(st, customerId)
        out == IF customer.currentVisit.isInside
               THEN processExit(st, "emergency", customer, t)
               ELSE processEntry(st, "emergency", customer, <<"gym", "spa">>, t)
    IN  IF out.res.success
        THEN [st |-> addToScanHistory(out.st,
                        ScanEntry(customer.customerId,
                                  IF out.res.type = "entry" THEN "emergency_entry"
                                  ELSE "emergency_exit",
                                  t, <<>>, Null, reason, TRUE)),
              res |-> [out.res EXCEPT !.isEmergencyOverride = TRUE,
                                      !.reason = reason]]
        ELSE out

\* processBarcodeEntry after its second await: customer is the object the
\* lookup returned before the awaits (enrichCustomerData copies the stored
\* object, and updateCustomerVisitStatus gives the stored object a new
\* currentVisit, so the copy keeps the currentVisit it was made with)
scanAfterValidation(st, customer, subscriptionResult, servicesArg, t) ==
    LET services == IF servicesArg = NoServices THEN DefaultServices ELSE servicesArg
    IN  IF ~subscriptionResult.isValid
        THEN [st |-> st,
              res |-> [Outcome("scan", customer.customerId, FALSE,
                               "subscription_invalid") EXCEPT
                         !.warnings = subscriptionResult.warnings]]
        ELSE IF customer.currentVisit.isInside
        THEN processExit(st, "scan", customer, t)
        ELSE processEntry(st, "scan", customer, services, t)

\* manualEntryExit after its await, with the object the lookup returned
manualAfterLookup(st, customer, action, servicesArg, t) ==
    LET services == IF servicesArg = NoServices THEN DefaultServices ELSE servicesArg
    IN  IF action = "entry"
        THEN IF customer.currentVisit.isInside
             THEN Reject(st, "manual", "already_inside")
             ELSE processEntry(st, "manual", customer, services, t)
        ELSE IF ~customer.currentVisit.isInside
             THEN Reject(st, "manual", "not_inside")
             ELSE processExit(st, "manual", customer, t)

\* emergencyOverride after its first await, up to the await of the exit or
\* entry it makes
emergencyAfterLookup(st, customer, t) ==
    IF customer.currentVisit.isInside
    THEN processExit(st, "emergency", customer, t)
    ELSE processEntry(st, "emergency", customer, <<"gym", "spa">>, t)

\* emergencyOverride after its second await: res is what the exit or entry
\* returned
emergencyAfterResult(st, customer, res, reason, t) ==
    IF res.success
    THEN [st |-> addToScanHistory(st,
                    ScanEntry(customer.customerId,
                              IF res.type = "entry" THEN "emergency_entry"
                              ELSE "emergency_exit",
                              t, <<>>, Null, reason, TRUE)),
          res |-> [res EXCEPT !.isEmergencyOverride = TRUE,
                              !.reason = reason]]
    ELSE [st |-> st, res |-> res]

\* checkForDuplicateEntry: a scan-history entry of the customer younger
\* than the window.  No operation of the services calls it.
checkForDuplicateEntry(st, customerId, timeWindowMs, t) ==
    \E i \in 1..Len(st.scanHistory) :
        /\ st.scanHistory[i].customerId = customerId
        /\ t - st.scanHistory[i].timestamp < timeWindowMs

-----------------------------------------------------------------------------
(* VisitorsService *)

\* the reason argument left out by the caller (undefined)
NoReason == "undefined"

\* The reason is handed to the subscribed callbacks and returned to the
\* caller; no field of the services keeps it.
forceExitVisitor(st, customerId, reasonArg, t) ==
    LET reason == IF reasonArg = NoReason THEN "Manual override" ELSE reasonArg IN
    IF customerId = <<>>
    THEN Reject(st, "force", NoType)
    ELSE IF ~\E v \in getCurrentVisitors(st) : v.customerId = customerId
    THEN Reject(st, "force", NoType)
    ELSE
    LET i == CurrentVisitIndex(st.visits, customerId)
        exitTime == t
        entryTime == IF i = 0 THEN Null ELSE st.visits[i].entryTime
        duration == calculateDuration(entryTime, exitTime)
    IN  IF i = 0
        THEN Reject(st, "force", NoType)
        ELSE
        LET st1 == endVisit(st, st.visits[i].visitId, exitTime)
            st2 == updateCustomerVisitStatus(st1, customerId, FALSE, Null, exitTime)
        IN  [st |-> st2,
             res |-> [Outcome("force", customerId, TRUE, "force_exit") EXCEPT
                        !.visitId = st.visits[i].visitId,
                        !.entryTime = entryTime,
                        !.exitTime = exitTime,
                        !.duration = duration,
                        !.reason = reason]]

-----------------------------------------------------------------------------
(* StatisticsService *)

CacheTimeout == 5 * SecondsPerMinute * MsPerSecond

\* no entry under a cache key
NoSnapshot == [timestamp |-> Null]

\* the forEach of calculatePeakHour from hour on, peak being the peak of
\* the hours before it
RECURSIVE PeakFrom(_, _, _)
PeakFrom(hourlyStats, hour, peak) ==
    IF hour \notin DOMAIN hourlyStats THEN peak
    ELSE PeakFrom(hourlyStats, hour + 1,
                  IF hourlyStats[hour].entries > peak.entries
                  THEN [hour |-> hour, entries |-> hourlyStats[hour].entries]
                  ELSE peak)

\* the last hour with the most entries is kept
calculatePeakHour_LastMaximum(hourlyStats) ==
    LET most == CHOOSE m \in {hourlyStats[h].entries : h \in DOMAIN hourlyStats} :
                    \A h \in DOMAIN hourlyStats : hourlyStats[h].entries <= m
    IN  [hour |-> CHOOSE h \in DOMAIN hourlyStats :
                      /\ hourlyStats[h].entries = most
                      /\ \A g \in DOMAIN hourlyStats :
                            hourlyStats[g].entries = most => g <= h,
         entries |-> most]

\* calculatePeakHour: the keys of hourlyStats are gone through in ascending
\* order from peakHour = 0, maxEntries = 0; timeRange, a text made of hour,
\* is left out
calculatePeakHour(hourlyStats) ==
    PeakFrom(hourlyStats, 0, [hour |-> 0, entries |-> 0])

\* getDailyStatistics: cache is cachedStats, date the argument (Null when
\* left out).  Of the statistics hourlyData (hourlyStats as a list) and
\* revenue are left out.  It returns the new cache and the object handed
\* to the caller: { success: true, ...cached.data } for a snapshot served
\* from the cache, { success: true, data: statistics } otherwise.
getDailyStatistics(st, cache, date, t, offset) ==
    LET targetDate == IF date = Null THEN DateOf(t) ELSE date
        today == isToday(targetDate, t, offset)
        cached == cache[targetDate]
        statistics ==
            [date |-> targetDate,
             isToday |-> today,
             overview |-> getVisitStatsByDate(st, targetDate),
             peakHour |->
                 calculatePeakHour(getHourlyVisitStats(st, targetDate, offset)),
             membershipBreakdown |-> getMembershipTypeStats(st, targetDate),
             serviceUsage |-> getServiceStats(st, targetDate),
             currentVisitors |-> IF today THEN Cardinality(getCurrentVisitors(st))
                                 ELSE 0,
             generatedAt |-> t]
    IN  IF /\ ~today
           /\ cached # NoSnapshot
           /\ t - cached.timestamp < CacheTimeout
        THEN [cache |-> cache, res |-> [success |-> TRUE] @@ cached.data]
        ELSE [cache |-> IF ~today
                        THEN [cache EXCEPT ![targetDate] =
                                 [data |-> statistics, timestamp |-> t]]
                        ELSE cache,
              res |-> [success |-> TRUE, data |-> statistics]]

-----------------------------------------------------------------------------
(* Seed data and inputs *)

\* customer ids "00000001", "00000002", ...
Id(n) == padStart(toString(n), MinLength)

\* the instant the process starts: 23:00 UTC on day 2
T0 == 2 * MsPerDay + 23 * MinutesPerHour * MsPerMinute

Days(n) == n * MsPerDay
Minutes(n) == n * MsPerMinute
Seconds(n) == n * MsPerSecond

\* customers.json: a valid member who is outside and a member whose
\* subscription ran out yesterday and who is still inside
SeedCustomers ==
    << [customerId |-> Id(1),
        membership |-> Membership("monthly", "active", T0 - Days(1), T0 + Days(14)),
        currentVisit |-> CurrentVisit(FALSE, Null, T0 - Minutes(120))],
       [customerId |-> Id(2),
        membership |-> Membership("annual", "active", T0 - Days(2), T0 - Days(1)),
        currentVisit |-> CurrentVisit(TRUE, T0 - Minutes(30) - Seconds(40), Null)] >>

\* visits.json: one closed visit and the open visit of the member inside
SeedVisits ==
    << [visitId |-> VisitIdOf(1), customerId |-> Id(1),
        entryTime |-> T0 - Minutes(180), exitTime |-> T0 - Minutes(120),
        duration |-> 60, services |-> <<"gym">>, date |-> DateOf(T0 - Minutes(180))],
       [visitId |-> VisitIdOf(2), customerId |-> Id(2),
        entryTime |-> T0 - Minutes(30) - Seconds(40), exitTime |-> Null,
        duration |-> Null, services |-> <<"gym", "spa">>,
        date |-> DateOf(T0 - Minutes(30) - Seconds(40))] >>

\* what a scanner or a keyboard can deliver
Barcodes ==
    { Id(1), Id(2), Id(3),
      <<" ">> \o Id(1) \o <<" ">>,      \* padded with blanks
      <<"0", "0", "1">>,                \* too short
      <<"a">> \o Id(1),                 \* not only digits
      <<>> }                            \* empty

CustomerIdArgs == { Id(1), Id(2), Id(3), <<>> }

ServiceArgs == { NoServices, <<"spa">> }

ActionArgs == { "entry", "exit", "toggle" }

ReasonArgs == { "", "drill" }

\* registration forms: a member whose status field says expired although
\* the end date lies ahead, a suspended member, a form with a bad name or
\* e-mail, a form whose end date is not after its start date, and a form
\* with an id that is taken
Registrations ==
    { [customerId |-> Id(3), infoOk |-> TRUE,
       membership |-> Membership("monthly", "expired", T0 - Days(1), T0 + Days(14))],
      [customerId |-> Id(3), infoOk |-> TRUE,
       membership |-> Membership("daily", "suspended", T0 - Days(1), T0 + Days(14))],
      [customerId |-> Id(3), infoOk |-> FALSE,
       membership |-> Membership("monthly", "active", T0 - Days(1), T0 + Days(14))],
      [customerId |-> Id(3), infoOk |-> TRUE,
       membership |-> Membership("daily", "active", T0, T0)],
      [customerId |-> Id(1), infoOk |-> TRUE,
       membership |-> Membership("daily", "active", T0, T0 + Days(1))] }

\* the customers the maintenance calls are made for
AdminIds == {Id(1), Id(2)}

\* the updates handed to updateCustomer
Updates ==
    { [customerId |-> Id(2)],
      [currentVisit |-> CurrentVisit(TRUE, T0, Null)],
      [membership |-> Membership("monthly", "active", T0 - Days(1), T0 + Days(7))],
      [infoOk |-> FALSE] }

\* the dates statistics are asked for: the day before startup, the day of
\* startup and the day after
StatDates == {DateOf(T0) - 1, DateOf(T0), DateOf(T0) + 1}

\* the date argument of getDailyStatistics; Null when it is left out
StatArgs == {Null, DateOf(T0) - 1, DateOf(T0)}

\* the time zones the desk may run in: UTC, UTC-5 and UTC+2
TimeZones == {0, 0 - 5 * MinutesPerHour * MsPerMinute, 2 * MinutesPerHour * MsPerMinute}

\* how far the clock moves between two looks at the statistics
StatsAdvanceSteps == {Minutes(2), Minutes(3)}

\* how far the clock moves between two calls
AdvanceSteps == { Minutes(95) }

-----------------------------------------------------------------------------
(* The state machine *)

\* the calls that can be in flight at once
Slots == {1, 2}

\* no call in this slot
IdleCall ==
    [pc |-> "idle", op |-> "none", customer |-> <<>>, action |-> "",
     reason |-> "", subscriptionResult |-> <<>>, res |-> <<>>]

NoCalls == [p \in Slots |-> IdleCall]

Init ==
    /\ customers = SeedCustomers
    /\ visits = SeedVisits
    /\ nextVisitId = Len(SeedVisits) + 1
    /\ scanHistory = <<>>
    /\ now = T0
    /\ steps = 0
    /\ limit = MaxSteps
    /\ result = Outcome("none", <<>>, FALSE, NoType)
    /\ customersData = SeedCustomers
    /\ aliased = 1..Len(SeedCustomers)
    /\ issued = {SeedVisits[i].visitId : i \in 1..Len(SeedVisits)}
    /\ cachedStats = [d \in StatDates |-> NoSnapshot]
    /\ stats = NoSnapshot
    /\ tz = 0
    /\ calls = NoCalls

\* a call runs to completion; out is the state it leaves and what it
\* returns, shared the positions of the customer table that hold imported
\* objects afterwards.  A customer object is changed in place
\* (updateCustomerVisitStatus), so an imported object that is still in the
\* table has the content the table shows.
Commit(o, shared) ==
    /\ customers' = o.st.customers
    /\ visits' = o.st.visits
    /\ nextVisitId' = o.st.nextVisitId
    /\ scanHistory' = o.st.scanHistory
    /\ result' = o.res
    /\ aliased' = shared
    /\ customersData' =
          [i \in 1..Len(customersData) |->
              IF i \in shared THEN o.st.customers[i] ELSE customersData[i]]
    /\ issued' = issued \cup
          {o.st.visits[i].visitId : i \in 1..Len(o.st.visits)}
    /\ UNCHANGED <<now, limit, cachedStats, stats, tz>>

ApplyShared(out, shared) ==
    \E o \in {out} :
        /\ IF o.st = State THEN steps' = steps
           ELSE steps < limit /\ steps' = steps + 1
        /\ Commit(o, shared)
        /\ UNCHANGED calls

Apply(out) == ApplyShared(out, aliased)

ProcessBarcodeEntry(barcode, services) ==
    Apply(processBarcodeEntry(State, barcode, services, now))

ManualEntryExit(customerId, action) ==
    LET out == manualEntryExit(State, customerId, action, NoServices, now)
        repeated == /\ result.op = "manual"
                    /\ result.success
                    /\ result.customerId = customerId
                    /\ result.type = action
    IN  Apply([st |-> out.st, res |-> [out.res EXCEPT !.repeated = repeated]])

EmergencyOverride(customerId, reason) ==
    Apply(emergencyOverride(State, customerId, reason, now))

ForceExitVisitor(customerId, reason) ==
    Apply(forceExitVisitor(State, customerId, reason, now))

RegisterCustomer(customerData) ==
    Apply(registerCustomer(State, customerData))

Advance(d) ==
    /\ steps < limit
    /\ now' = now + d
    /\ steps' = steps + 1
    /\ UNCHANGED <<customers, visits, nextVisitId, scanHistory, result,
                   customersData, aliased, issued, limit, cachedStats, stats,
                   tz, calls>>

Next ==
    \/ \E b \in Barcodes, s \in ServiceArgs : ProcessBarcodeEntry(b, s)
    \/ \E c \in CustomerIdArgs, a \in ActionArgs : ManualEntryExit(c, a)
    \/ \E c \in CustomerIdArgs, r \in ReasonArgs : EmergencyOverride(c, r)
    \/ \E c \in CustomerIdArgs, r \in ReasonArgs \cup {NoReason} : ForceExitVisitor(c, r)
    \/ \E d \in Registrations : RegisterCustomer(d)
    \/ \E d \in AdvanceSteps : Advance(d)

Spec == Init /\ [][Next]_vars

\* the replaced object is a new one: the imported object keeps its content
UpdateCustomer(customerId, updates) ==
    \E o \in {updateCustomer(State, customerId, updates)} :
        ApplyShared(o, IF o.res.success
                       THEN aliased \ {CustomerIndex(customers, customerId)}
                       ELSE aliased)

\* the imported visit objects are the first visits of the ledger: visits
\* are appended and closed in place, never replaced
visitsData == SubSeq(visits, 1, Len(SeedVisits))

ResetData ==
    ApplyShared([st |-> resetData(State, customersData, visitsData),
                 res |-> Outcome("reset", <<>>, TRUE, NoType)],
                1..Len(customersData))

\* the services with the maintenance calls updateCustomer and resetData
NextAdmin ==
    \/ \E c \in AdminIds : ProcessBarcodeEntry(c, NoServices)
    \/ \E c \in AdminIds, a \in {"entry", "exit"} : ManualEntryExit(c, a)
    \/ \E c \in AdminIds : EmergencyOverride(c, "drill")
    \/ \E c \in AdminIds : ForceExitVisitor(c, NoReason)
    \/ \E d \in Registrations : RegisterCustomer(d)
    \/ \E c \in AdminIds, u \in Updates : UpdateCustomer(c, u)
    \/ ResetData
    \/ \E d \in AdvanceSteps : Advance(d)

SpecAdmin == Init /\ [][NextAdmin]_vars

\* manual entries and exits with resets of the data in between, followed
\* for one step more
InitReset ==
    /\ customers = SeedCustomers
    /\ visits = SeedVisits
    /\ nextVisitId = Len(SeedVisits) + 1
    /\ scanHistory = <<>>
    /\ now = T0
    /\ steps = 0
    /\ limit = MaxResetSteps
    /\ result = Outcome("none", <<>>, FALSE, NoType)
    /\ customersData = SeedCustomers
    /\ aliased = 1..Len(SeedCustomers)
    /\ issued = {SeedVisits[i].visitId : i \in 1..Len(SeedVisits)}
    /\ cachedStats = [d \in StatDates |-> NoSnapshot]
    /\ stats = NoSnapshot
    /\ tz = 0
    /\ calls = NoCalls

NextReset ==
    \/ \E c \in AdminIds, a \in {"entry", "exit"} : ManualEntryExit(c, a)
    \/ \E c \in AdminIds, r \in ReasonArgs : EmergencyOverride(c, r)
    \/ ResetData

SpecReset == InitReset /\ [][NextReset]_vars

GetDailyStatistics(date) ==
    \E o \in {getDailyStatistics(State, cachedStats, date, now, tz)} :
        /\ IF o.cache = cachedStats THEN steps' = steps
           ELSE steps < limit /\ steps' = steps + 1
        /\ cachedStats' = o.cache
        /\ stats' = o.res
        /\ UNCHANGED <<customers, visits, nextVisitId, scanHistory, now, limit,
                       result, customersData, aliased, issued, tz, calls>>

\* the front desk with the statistics page open, in some time zone
InitStats ==
    /\ customers = SeedCustomers
    /\ visits = SeedVisits
    /\ nextVisitId = Len(SeedVisits) + 1
    /\ scanHistory = <<>>
    /\ now = T0
    /\ steps = 0
    /\ limit = MaxStatsSteps
    /\ result = Outcome("none", <<>>, FALSE, NoType)
    /\ customersData = SeedCustomers
    /\ aliased = 1..Len(SeedCustomers)
    /\ issued = {SeedVisits[i].visitId : i \in 1..Len(SeedVisits)}
    /\ cachedStats = [d \in StatDates |-> NoSnapshot]
    /\ stats = NoSnapshot
    /\ tz \in TimeZones
    /\ calls = NoCalls

NextStats ==
    \/ \E d \in StatArgs : GetDailyStatistics(d)
    \/ ProcessBarcodeEntry(Id(1), NoServices)
    \/ \E d \in StatsAdvanceSteps : Advance(d)

SpecStats == InitStats /\ [][NextStats]_vars

\* the services arrays handed to processBarcodeEntry: left out, one
\* service, both services, the service type 'both', and no service
ServiceSets ==
    { NoServices, <<"gym">>, <<"spa">>, <<"gym", "spa">>, <<"both">>, <<>> }

\* scans and overrides with every services argument
NextServices ==
    \/ \E c \in AdminIds, s \in ServiceSets : ProcessBarcodeEntry(c, s)
    \/ \E c \in AdminIds : EmergencyOverride(c, "drill")
    \/ \E d \in AdvanceSteps : Advance(d)

SpecServices == Init /\ [][NextServices]_vars

\* how far the clock moves between two calls of the statistics page: a
\* few minutes, or past midnight
CacheAdvanceSteps == { Minutes(3), Minutes(95) }

\* the statistics page open over midnight, with exits, scans and profile
\* edits in between
NextCache ==
    \/ \E d \in StatArgs : GetDailyStatistics(d)
    \/ \E c \in AdminIds : ManualEntryExit(c, "exit")
    \/ ProcessBarcodeEntry(Id(1), NoServices)
    \/ \E c \in AdminIds, u \in Updates : UpdateCustomer(c, u)
    \/ \E d \in CacheAdvanceSteps : Advance(d)

SpecCache == Init /\ [][NextCache]_vars

\* the state after the first member's card was scanned n times since
\* startup, once a second: scan 2k - 1 is an entry at T0 + 2k - 2 seconds
\* (processEntry), scan 2k the exit a second later (processExit)
AfterScans(n) ==
    LET entryOf(k) == T0 + Seconds(2 * k - 2)
        exitOf(k) == T0 + Seconds(2 * k - 1)
        entries == (n + 1) \div 2
        closed(k) == 2 * k <= n
    IN  [customers |->
            [SeedCustomers EXCEPT ![1].currentVisit =
                IF n = 0 THEN @
                ELSE IF closed(entries)
                THEN CurrentVisit(FALSE, Null, exitOf(entries))
                ELSE CurrentVisit(TRUE, entryOf(entries), Null)],
         visits |->
            SeedVisits \o
            [k \in 1..entries |->
                [visitId |-> VisitIdOf(Len(SeedVisits) + k),
                 customerId |-> Id(1),
                 entryTime |-> entryOf(k),
                 exitTime |-> IF closed(k) THEN exitOf(k) ELSE Null,
                 duration |-> IF closed(k)
                              THEN calculateDuration(entryOf(k), exitOf(k))
                              ELSE Null,
                 services |-> DefaultServices,
                 date |-> DateOf(entryOf(k))]],
         nextVisitId |-> Len(SeedVisits) + entries + 1,
         scanHistory |->
            [j \in 1..n |->
                IF j % 2 = 1
                THEN ScanEntry(Id(1), "entry", entryOf((j + 1) \div 2),
                               DefaultServices, Null, "", FALSE)
                ELSE ScanEntry(Id(1), "exit", exitOf(j \div 2), <<>>,
                               calculateDuration(entryOf(j \div 2), exitOf(j \div 2)),
                               "", FALSE)]]

\* how many scans were made before the run looked at starts: none, or so
\* many that the scan history is full or nearly full
ScansBefore == { 0, HistoryLimit - 2, HistoryLimit - 1, HistoryLimit }

\* how far the clock moves between two calls at a busy desk
HistoryAdvanceSteps == { Seconds(1) }

InitHistory ==
    \E n \in ScansBefore :
        \E s \in {AfterScans(n)} :
            /\ customers = s.customers
            /\ visits = s.visits
            /\ nextVisitId = s.nextVisitId
            /\ scanHistory = s.scanHistory
            /\ now = T0 + Seconds(n)
            /\ steps = 0
            /\ limit = MaxHistorySteps
            /\ result = Outcome("none", <<>>, FALSE, NoType)
            /\ customersData = s.customers
            /\ aliased = 1..Len(SeedCustomers)
            /\ issued = {s.visits[i].visitId : i \in 1..Len(s.visits)}
            /\ cachedStats = [d \in StatDates |-> NoSnapshot]
            /\ stats = NoSnapshot
            /\ tz = 0
            /\ calls = NoCalls

\* scans, manual entries and exits and emergency overrides at a desk whose
\* scan history is empty, nearly full or full
NextHistory ==
    \/ \E c \in AdminIds : ProcessBarcodeEntry(c, NoServices)
    \/ \E c \in AdminIds, a \in {"entry", "exit"} : ManualEntryExit(c, a)
    \/ \E c \in AdminIds : EmergencyOverride(c, "drill")
    \/ \E d \in HistoryAdvanceSteps : Advance(d)

SpecHistory == InitHistory /\ [][NextHistory]_vars

\* a call is started: it runs up to its first await, by which the lookup
\* has handed it its copy of the customer
Begin(p, op, customerId, action, reason) ==
    /\ calls[p].pc = "idle"
    /\ steps < limit
    /\ hasCustomer(State, customerId)
    /\ calls' = [calls EXCEPT ![p] =
                    [IdleCall EXCEPT !.pc = "lookup",
                                     !.op = op,
                                     !.customer = getCustomerById(State, customerId),
                                     !.action = action,
                                     !.reason = reason]]
    /\ steps' = steps + 1
    /\ UNCHANGED <<customers, visits, nextVisitId, scanHistory, now, limit,
                   result, customersData, aliased, issued, cachedStats, stats,
                   tz>>

BeginScan(p, barcode) ==
    /\ validateBarcode(barcode)
    /\ Begin(p, "scan", trim(barcode), "", "")

BeginManual(p, customerId, action) ==
    Begin(p, "manual", customerId, action, "")

BeginEmergency(p, customerId, reason) ==
    /\ reason # ""
    /\ Begin(p, "emergency", customerId, "", reason)

\* the call in slot p goes on to its end
Finish(p, out) ==
    \E o \in {out} :
        /\ Commit(o, aliased)
        /\ calls' = [calls EXCEPT ![p] = IdleCall]
        /\ UNCHANGED steps

\* a scan goes on after the lookup: validateSubscription reads the stored
\* customer
ResumeValidate(p) ==
    /\ calls[p].pc = "lookup"
    /\ calls[p].op = "scan"
    /\ calls' = [calls EXCEPT
                    ![p].pc = "validated",
                    ![p].subscriptionResult =
                        validateSubscription(
                            getCustomerById(State, calls[p].customer.customerId),
                            now)]
    /\ UNCHANGED <<customers, visits, nextVisitId, scanHistory, now, steps,
                   limit, result, customersData, aliased, issued, cachedStats,
                   stats, tz>>

ResumeScan(p) ==
    /\ calls[p].pc = "validated"
    /\ Finish(p, scanAfterValidation(State, calls[p].customer,
                                     calls[p].subscriptionResult, NoServices, now))

ResumeManual(p) ==
    /\ calls[p].pc = "lookup"
    /\ calls[p].op = "manual"
    /\ Finish(p, manualAfterLookup(State, calls[p].customer, calls[p].action,
                                   NoServices, now))

ResumeEmergency(p) ==
    /\ calls[p].pc = "lookup"
    /\ calls[p].op = "emergency"
    /\ \E o \in {emergencyAfterLookup(State, calls[p].customer, now)} :
          /\ Commit(o, aliased)
          /\ calls' = [calls EXCEPT ![p].pc = "processed", ![p].res = o.res]
          /\ UNCHANGED steps

ResumeEmergencyRecord(p) ==
    /\ calls[p].pc = "processed"
    /\ Finish(p, emergencyAfterResult(State, calls[p].customer, calls[p].res,
                                      calls[p].reason, now))

\* calls are started while others wait at an await; at most limit calls
InitConcurrent ==
    /\ customers = SeedCustomers
    /\ visits = SeedVisits
    /\ nextVisitId = Len(SeedVisits) + 1
    /\ scanHistory = <<>>
    /\ now = T0
    /\ steps = 0
    /\ limit = MaxCalls
    /\ result = Outcome("none", <<>>, FALSE, NoType)
    /\ customersData = SeedCustomers
    /\ aliased = 1..Len(SeedCustomers)
    /\ issued = {SeedVisits[i].visitId : i \in 1..Len(SeedVisits)}
    /\ cachedStats = [d \in StatDates |-> NoSnapshot]
    /\ stats = NoSnapshot
    /\ tz = 0
    /\ calls = NoCalls

NextConcurrent ==
    \E p \in Slots :
        \/ \E c \in AdminIds : BeginScan(p, c)
        \/ \E c \in AdminIds, a \in {"entry", "exit"} : BeginManual(p, c, a)
        \/ \E c \in AdminIds : BeginEmergency(p, c, "drill")
        \/ ResumeValidate(p)
        \/ ResumeScan(p)
        \/ ResumeManual(p)
        \/ ResumeEmergency(p)
        \/ ResumeEmergencyRecord(p)

SpecConcurrent == InitConcurrent /\ [][NextConcurrent]_vars

\* membership.endDate as customers.json may hold it: missing, not a date,
\* the instant of startup, the instant 95 minutes later, and the same two
\* instants seven days later
EndDates ==
    { Null, InvalidDate, T0, T0 + Minutes(95), T0 + Days(7),
      T0 + Days(7) + Minutes(95) }

\* the seed customers with these end dates: the first outside, the second
\* inside with the open seed visit
SeedCustomersEnding(endDate1, endDate2) ==
    << [SeedCustomers[1] EXCEPT !.membership.endDate = endDate1],
       [SeedCustomers[2] EXCEPT !.membership.endDate = endDate2] >>

InitBoundary ==
    /\ \E e1 \in EndDates, e2 \in EndDates :
          /\ customers = SeedCustomersEnding(e1, e2)
          /\ customersData = SeedCustomersEnding(e1, e2)
    /\ visits = SeedVisits
    /\ nextVisitId = Len(SeedVisits) + 1
    /\ scanHistory = <<>>
    /\ now = T0
    /\ steps = 0
    /\ limit = MaxSteps
    /\ result = Outcome("none", <<>>, FALSE, NoType)
    /\ aliased = 1..Len(SeedCustomers)
    /\ issued = {SeedVisits[i].visitId : i \in 1..Len(SeedVisits)}
    /\ cachedStats = [d \in StatDates |-> NoSnapshot]
    /\ stats = NoSnapshot
    /\ tz = 0
    /\ calls = NoCalls

\* scans at the front desk while the clock runs
NextBoundary ==
    \/ \E c \in AdminIds, s \in ServiceArgs : ProcessBarcodeEntry(c, s)
    \/ \E d \in AdvanceSteps : Advance(d)

SpecBoundary == InitBoundary /\ [][NextBoundary]_vars

-----------------------------------------------------------------------------
(* Properties *)

\* the customer ids that occur in the customer table or in the ledger
KnownIds ==
    {customers[i].customerId : i \in 1..Len(customers)}
        \cup {visits[i].customerId : i \in 1..Len(visits)}

\* the open visits of a customer: the ledger positions with exitTime = null
OpenVisitsOf(customerId) ==
    {i \in 1..Len(visits) :
        visits[i].customerId = customerId /\ visits[i].exitTime = Null}

\* the customer record with this id (the id is in the table)
CustomerOf(customerId) == customers[CustomerIndex(customers, customerId)]

IsCustomer(customerId) == \E i \in 1..Len(customers) : customers[i].customerId = customerId

\* eligibility as the specification words it: not suspended, not expired
\* and status active
EligibleAt(membership, t) ==
    /\ membership.status = "active"
    /\ membership.endDate # Null
    /\ membership.endDate # InvalidDate
    /\ membership.endDate >= t

\* a call left the customer table, the ledger and the scan history alone
NothingChanged == UNCHANGED <<customers, visits, nextVisitId, scanHistory>>

\* C1: after any sequence of scans, manual entries and exits, emergency
\* overrides, forced exits and registrations, a customer is flagged inside
\* exactly when the ledger holds exactly one open visit of that customer.
C1_InsideIffOneOpenVisit ==
    \A i \in 1..Len(customers) :
        customers[i].currentVisit.isInside
            <=> Cardinality(OpenVisitsOf(customers[i].customerId)) = 1

\* a forced exit has closed the seed visit, and a member registered since
\* startup has come in
C1_Witness ==
    /\ result.type = "entry"
    /\ result.customerId = Id(3)
    /\ ~CustomerOf(Id(2)).currentVisit.isInside
    /\ CustomerOf(Id(3)).currentVisit.isInside

\* C2: no customer id ever has more than one open visit in the ledger,
\* whatever the isInside flag of that customer says.
C2_AtMostOneOpenVisit ==
    \A id \in KnownIds : Cardinality(OpenVisitsOf(id)) <= 1

\* a customer has left again (flag false, visit closed) while another
\* customer's visit is open
C2_Witness ==
    /\ result.type = "exit"
    /\ ~CustomerOf(result.customerId).currentVisit.isInside
    /\ \E i \in 1..Len(visits) :
          visits[i].customerId = result.customerId /\ visits[i].exitTime # Null
    /\ \E id \in KnownIds : Cardinality(OpenVisitsOf(id)) = 1

\* a barcode that, once trimmed, is 8 to 12 digits
WellFormed(barcode) ==
    LET c == trim(barcode)
    IN  /\ Len(c) >= 8
        /\ Len(c) <= 12
        /\ \A i \in 1..Len(c) : c[i] \in {"0", "1", "2", "3", "4", "5", "6", "7", "8", "9"}

\* this step appends one open visit of customerId, entered now with these
\* services, and flags the customer inside since now
EntryMade(customerId, services) ==
    /\ Len(visits') = Len(visits) + 1
    /\ SubSeq(visits', 1, Len(visits)) = visits
    /\ visits'[Len(visits')].customerId = customerId
    /\ visits'[Len(visits')].entryTime = now
    /\ visits'[Len(visits')].exitTime = Null
    /\ visits'[Len(visits')].duration = Null
    /\ visits'[Len(visits')].services = services
    /\ \A i \in 1..Len(visits) : visits'[Len(visits')].visitId # visits[i].visitId
    /\ Len(customers') = Len(customers)
    /\ \A i \in 1..Len(customers) :
          customers'[i] =
              IF customers[i].customerId = customerId
              THEN [customers[i] EXCEPT
                      !.currentVisit = [isInside |-> TRUE, entryTime |-> now,
                                        exitTime |-> Null]]
              ELSE customers[i]

\* this step closes the open visit of customerId now, touches no other
\* visit, and flags the customer outside since now
ExitMade(customerId) ==
    /\ Len(visits') = Len(visits)
    /\ \E i \in OpenVisitsOf(customerId) :
          /\ visits'[i].exitTime = now
          /\ visits'[i].visitId = visits[i].visitId
          /\ visits'[i].entryTime = visits[i].entryTime
          /\ \A j \in 1..Len(visits) : j # i => visits'[j] = visits[j]
    /\ Len(customers') = Len(customers)
    /\ \A i \in 1..Len(customers) :
          customers'[i] =
              IF customers[i].customerId = customerId
              THEN [customers[i] EXCEPT
                      !.currentVisit = [isInside |-> FALSE, entryTime |-> Null,
                                        exitTime |-> now]]
              ELSE customers[i]

\* C3: for a customer whose subscription is valid, scans alternate: a scan
\* while outside returns 'entry', appends one open visit with the requested
\* services (gym when none are given) and sets currentVisit to
\* {inside, now, null}; a scan while inside returns 'exit', closes that
\* visit (the one the entry before it returned) and sets currentVisit to
\* {outside, null, now}.
C3_ScansAlternate ==
    [][\A b \in Barcodes, s \in ServiceArgs : \A c \in {trim(b)} :
        (/\ WellFormed(b)
         /\ IsCustomer(c)
         /\ EligibleAt(CustomerOf(c).membership, now)
         /\ ProcessBarcodeEntry(b, s))
        => IF CustomerOf(c).currentVisit.isInside
           THEN /\ result'.success
                /\ result'.type = "exit"
                /\ ExitMade(c)
                /\ (result.type = "entry" /\ result.customerId = c
                       => /\ result'.visitId = result.visitId
                          /\ \E i \in OpenVisitsOf(c) :
                                visits[i].visitId = result.visitId)
           ELSE /\ result'.success
                /\ result'.type = "entry"
                /\ EntryMade(c, IF s = NoServices THEN <<"gym">> ELSE s)
                /\ result'.visitId = visits'[Len(visits')].visitId
      ]_vars

\* a scan for the spa has let a member in and the next scan has let the
\* member out
C3_Witness ==
    /\ result.op = "scan"
    /\ result.type = "exit"
    /\ Len(scanHistory) >= 2
    /\ scanHistory[Len(scanHistory) - 1].action = "entry"
    /\ scanHistory[Len(scanHistory) - 1].services = <<"spa">>
    /\ scanHistory[Len(scanHistory) - 1].customerId = result.customerId
    /\ scanHistory[Len(scanHistory)].action = "exit"
    /\ scanHistory[Len(scanHistory)].customerId = result.customerId

\* C4: the duration of an open visit is null; the duration of a closed
\* visit, and the duration an exit returns, are the whole minutes between
\* the visit's entry and exit, also across midnight.
C4_DurationIsWholeMinutes ==
    /\ \A i \in 1..Len(visits) :
          IF visits[i].exitTime = Null
          THEN visits[i].duration = Null
          ELSE /\ visits[i].duration * 60000 <= visits[i].exitTime - visits[i].entryTime
               /\ visits[i].exitTime - visits[i].entryTime
                      < (visits[i].duration + 1) * 60000
    /\ (result.success /\ result.type \in {"exit", "force_exit"})
          => \E i \in 1..Len(visits) :
                /\ visits[i].visitId = result.visitId
                /\ visits[i].exitTime = result.exitTime
                /\ visits[i].duration = result.duration
                /\ result.duration * 60000 <= result.exitTime - visits[i].entryTime
                /\ result.exitTime - visits[i].entryTime < (result.duration + 1) * 60000

\* a visit that began 30 min 40 s before startup, on day 2, was closed on
\* day 3, 95 minutes after startup: 125 whole minutes
C4_Witness ==
    /\ result.success
    /\ result.type \in {"exit", "force_exit"}
    /\ result.duration = 125
    /\ result.entryTime \div 86400000 # result.exitTime \div 86400000

\* C5: a scan by a customer whose membership has run out or is suspended
\* returns 'subscription_invalid' and changes neither the customers, nor
\* the ledger, nor the scan history, whether the customer is inside or
\* outside.
C5_InvalidSubscriptionChangesNothing ==
    [][\A b \in Barcodes, s \in ServiceArgs :
        (/\ WellFormed(b)
         /\ IsCustomer(trim(b))
         /\ \/ CustomerOf(trim(b)).membership.status = "suspended"
            \/ CustomerOf(trim(b)).membership.endDate < now
         /\ ProcessBarcodeEntry(b, s))
        => /\ ~result'.success
           /\ result'.type = "subscription_invalid"
           /\ NothingChanged
      ]_vars

\* the member whose subscription ran out was turned away while inside
C5_Witness ==
    /\ result.op = "scan"
    /\ result.type = "subscription_invalid"
    /\ IsCustomer(result.customerId)
    /\ CustomerOf(result.customerId).membership.endDate < now
    /\ CustomerOf(result.customerId).currentVisit.isInside

\* C6: the eligibility result that admits a scan is valid exactly when the
\* membership is not suspended, not expired and has status 'active'; it
\* agrees with the subscriptionStatus of enrichCustomerData, and a scan is
\* never admitted for a customer whose status is not 'active'.
C6_ValidOnlyWhenActive ==
    /\ \A i \in 1..Len(customers) :
          /\ validateSubscription(customers[i], now).isValid
                <=> EligibleAt(customers[i].membership, now)
          /\ validateSubscription(customers[i], now).isValid
                <=> subscriptionStatus(customers[i], now).isValid
    /\ (result.op = "scan" /\ result.success /\ IsCustomer(result.customerId))
          => CustomerOf(result.customerId).membership.status = "active"

\* C7: a manual entry of a customer who is outside succeeds, and the same
\* call made again is refused with 'already_inside'; a manual exit of a
\* customer who is inside succeeds, and the same call made again is refused
\* with 'not_inside'.  The refused call changes neither the ledger nor the
\* customers.
C7_RepeatedManualCallRefused ==
    [][\A c \in CustomerIdArgs :
        /\ (/\ IsCustomer(c)
            /\ ~CustomerOf(c).currentVisit.isInside
            /\ ManualEntryExit(c, "entry"))
           => /\ result'.success
              /\ result'.type = "entry"
              /\ EntryMade(c, <<"gym">>)
        /\ (/\ IsCustomer(c)
            /\ CustomerOf(c).currentVisit.isInside
            /\ ManualEntryExit(c, "exit"))
           => /\ result'.success
              /\ result'.type = "exit"
              /\ ExitMade(c)
        /\ (/\ result.op = "manual"
            /\ result.success
            /\ result.type = "entry"
            /\ result.customerId = c
            /\ ManualEntryExit(c, "entry"))
           => /\ ~result'.success
              /\ result'.type = "already_inside"
              /\ NothingChanged
        /\ (/\ result.op = "manual"
            /\ result.success
            /\ result.type = "exit"
            /\ result.customerId = c
            /\ ManualEntryExit(c, "exit"))
           => /\ ~result'.success
              /\ result'.type = "not_inside"
              /\ NothingChanged
      ]_vars

\* the manual entry that has just succeeded was asked for again
C7_Witness ==
    /\ result.op = "manual"
    /\ result.repeated
    /\ result.type = "already_inside"
    /\ scanHistory # <<>>
    /\ scanHistory[Len(scanHistory)].action = "entry"
    /\ CustomerOf(scanHistory[Len(scanHistory)].customerId).currentVisit.isInside

\* C8: an emergency override with a customer id and a reason toggles the
\* customer as a scan would, whatever the membership says: outside, the
\* customer gets an open visit and is flagged inside; inside, the open
\* visit is closed.  The result and the last entry of the scan history are
\* marked as an override and carry the reason.  Without a customer id or
\* without a reason the call fails and changes nothing.
C8_OverrideBypassesEligibility ==
    [][\A c \in CustomerIdArgs, r \in ReasonArgs :
        /\ (/\ c # <<>>
            /\ r # ""
            /\ IsCustomer(c)
            /\ EmergencyOverride(c, r))
           => /\ result'.success
              /\ result'.isEmergencyOverride
              /\ result'.reason = r
              /\ IF CustomerOf(c).currentVisit.isInside
                 THEN ExitMade(c)
                 ELSE EntryMade(c, <<"gym", "spa">>)
              /\ scanHistory' # <<>>
              /\ scanHistory'[Len(scanHistory')].customerId = c
              /\ scanHistory'[Len(scanHistory')].isEmergencyOverride
              /\ scanHistory'[Len(scanHistory')].reason = r
        /\ ((c = <<>> \/ r = "") /\ EmergencyOverride(c, r))
           => /\ ~result'.success
              /\ NothingChanged
      ]_vars

\* a member whose subscription has run out was let in by an override
C8_Witness ==
    /\ result.op = "emergency"
    /\ result.success
    /\ result.type = "entry"
    /\ result.reason = "drill"
    /\ IsCustomer(result.customerId)
    /\ ~EligibleAt(CustomerOf(result.customerId).membership, now)
    /\ CustomerOf(result.customerId).currentVisit.isInside
    /\ scanHistory[Len(scanHistory)].isEmergencyOverride

\* C9: after a forced exit the visit is closed at the time of the call with
\* its duration in whole minutes, the customer is flagged outside, and the
\* reason can be read back from the state: from the visit or from an entry
\* of the scan history.
C9_ForcedExitKeepsReason ==
    (result.op = "force" /\ result.success)
        => /\ ~CustomerOf(result.customerId).currentVisit.isInside
           /\ \E i \in 1..Len(visits) :
                 /\ visits[i].visitId = result.visitId
                 /\ visits[i].customerId = result.customerId
                 /\ visits[i].exitTime = result.exitTime
                 /\ visits[i].duration =
                        (result.exitTime - visits[i].entryTime) \div 60000
                 /\ \/ /\ "reason" \in DOMAIN visits[i]
                       /\ visits[i].reason = result.reason
                    \/ \E j \in 1..Len(scanHistory) :
                          /\ scanHistory[j].customerId = result.customerId
                          /\ scanHistory[j].reason = result.reason

\* C10: a scan of a malformed barcode returns 'validation_error' and a scan
\* of a well-formed identifier of no customer returns 'customer_not_found';
\* both leave the customers, the ledger and the scan history as they were.
C10_UnresolvedScanChangesNothing ==
    [][\A b \in Barcodes, s \in ServiceArgs :
        /\ (~WellFormed(b) /\ ProcessBarcodeEntry(b, s))
           => /\ ~result'.success
              /\ result'.type = "validation_error"
              /\ NothingChanged
        /\ (WellFormed(b) /\ ~IsCustomer(trim(b)) /\ ProcessBarcodeEntry(b, s))
           => /\ ~result'.success
              /\ result'.type = "customer_not_found"
              /\ NothingChanged
      ]_vars

\* an identifier of no customer was scanned after the history had entries
C10_Witness ==
    /\ result.op = "scan"
    /\ result.type = "customer_not_found"
    /\ scanHistory # <<>>
    /\ \E i \in 1..Len(visits) : visits[i].exitTime = Null

\* C11: when a customer is flagged inside and the ledger holds no open
\* visit of that customer, an exit attempt (a scan by an eligible customer,
\* a manual exit, an emergency override) fails with 'no_active_visit' and
\* neither creates nor closes a visit.
C11_ExitWithoutOpenVisitFails ==
    [][\A c \in CustomerIdArgs :
        (/\ IsCustomer(c)
         /\ CustomerOf(c).currentVisit.isInside
         /\ OpenVisitsOf(c) = {})
        => /\ \A b \in Barcodes, s \in ServiceArgs :
                (/\ WellFormed(b)
                 /\ trim(b) = c
                 /\ EligibleAt(CustomerOf(c).membership, now)
                 /\ ProcessBarcodeEntry(b, s))
                => /\ ~result'.success
                   /\ result'.type = "no_active_visit"
                   /\ NothingChanged
           /\ ManualEntryExit(c, "exit")
                => /\ ~result'.success
                   /\ result'.type = "no_active_visit"
                   /\ NothingChanged
           /\ \A r \in ReasonArgs :
                (r # "" /\ EmergencyOverride(c, r))
                => /\ ~result'.success
                   /\ result'.type = "no_active_visit"
                   /\ NothingChanged
      ]_vars

\* a customer flagged inside without an open visit has scanned, while
\* another customer has an open visit
C11_Witness ==
    /\ result.op = "scan"
    /\ result.type = "no_active_visit"
    /\ \E i \in 1..Len(customers) :
          /\ customers[i].currentVisit.isInside
          /\ OpenVisitsOf(customers[i].customerId) = {}
          /\ EligibleAt(customers[i].membership, now)
    /\ \E i \in 1..Len(visits) : visits[i].exitTime = Null

\* C12: a membership whose endDate equals the current instant is expired,
\* and no scan is admitted at the instant equal to the customer's endDate.
C12_EndDateNowIsExpired ==
    /\ \A i \in 1..Len(customers) :
          customers[i].membership.endDate = now
              => /\ validateSubscription(customers[i], now).isExpired
                 /\ ~validateSubscription(customers[i], now).isValid
    /\ (result.op = "scan" /\ result.success /\ IsCustomer(result.customerId))
          => CustomerOf(result.customerId).membership.endDate
                 # (IF result.type = "entry" THEN result.entryTime
                    ELSE result.exitTime)

\* C13: for an active membership whose endDate lies in [now, now + 7 days],
\* both ends included, the subscription check says expiring soon, valid,
\* not expired, with one warning, and a scan by that customer is processed
\* as an entry (outside) or an exit (inside).
C13_ExpiringSoonIsAdmitted ==
    [][\A b \in Barcodes, s \in ServiceArgs :
        (/\ WellFormed(b)
         /\ IsCustomer(trim(b))
         /\ CustomerOf(trim(b)).membership.status = "active"
         /\ CustomerOf(trim(b)).membership.endDate >= now
         /\ CustomerOf(trim(b)).membership.endDate <= now + 7 * 86400000
         /\ ProcessBarcodeEntry(b, s))
        => /\ validateSubscription(CustomerOf(trim(b)), now).isExpiringSoon
           /\ validateSubscription(CustomerOf(trim(b)), now).isValid
           /\ ~validateSubscription(CustomerOf(trim(b)), now).isExpired
           /\ validateSubscription(CustomerOf(trim(b)), now).warnings = 1
           /\ result'.success
           /\ result'.type = IF CustomerOf(trim(b)).currentVisit.isInside
                             THEN "exit" ELSE "entry"
      ]_vars

\* a customer whose membership ends in seven days to the millisecond has
\* been let in
C13_Witness ==
    /\ result.op = "scan"
    /\ result.success
    /\ result.type = "entry"
    /\ result.entryTime = now
    /\ IsCustomer(result.customerId)
    /\ CustomerOf(result.customerId).membership.endDate = now + 7 * 86400000

\* C14: a membership whose endDate is missing or is not a date is expired
\* and not valid, and no scan of such a customer is admitted.
C14_BadEndDateIsExpired ==
    /\ \A i \in 1..Len(customers) :
          customers[i].membership.endDate \in {Null, InvalidDate}
              => /\ validateSubscription(customers[i], now).isExpired
                 /\ ~validateSubscription(customers[i], now).isValid
    /\ (result.op = "scan" /\ result.success /\ IsCustomer(result.customerId))
          => CustomerOf(result.customerId).membership.endDate
                 \notin {Null, InvalidDate}

\* C15: under scans, manual calls, emergency overrides and forced exits no
\* visit leaves the ledger; visitId, customerId, entryTime, services and
\* date of a visit never change; an open visit changes only by being
\* closed, and a closed visit never changes again.
C15_LedgerAppendAndCloseOnly ==
    [][/\ Len(visits') >= Len(visits)
       /\ \A i \in 1..Len(visits) :
             /\ visits'[i].visitId = visits[i].visitId
             /\ visits'[i].customerId = visits[i].customerId
             /\ visits'[i].entryTime = visits[i].entryTime
             /\ visits'[i].services = visits[i].services
             /\ visits'[i].date = visits[i].date
             /\ visits[i].exitTime # Null => visits'[i] = visits[i]
             /\ visits[i].exitTime = Null
                   => \/ visits'[i] = visits[i]
                      \/ /\ visits'[i].exitTime # Null
                         /\ visits'[i].duration # Null
      ]_vars

\* a visit opened since startup was closed, and the same customer has come
\* in again next to the closed visits
C15_Witness ==
    /\ Len(visits) = Len(SeedVisits) + 2
    /\ visits[Len(SeedVisits) + 1].exitTime # Null
    /\ visits[Len(SeedVisits) + 2].exitTime = Null
    /\ visits[Len(SeedVisits) + 2].customerId = visits[Len(SeedVisits) + 1].customerId
    /\ visits[1].exitTime # Null

\* C16: a scan of a customer whose previous scan was admitted less than
\* 5 seconds earlier is still processed as an entry or exit, and its result
\* or its log entry is flagged as a likely duplicate; a scan further apart
\* is not flagged.
C16_DoubleScanFlagged ==
    [][\A b \in Barcodes, s \in ServiceArgs :
        (/\ WellFormed(b)
         /\ IsCustomer(trim(b))
         /\ EligibleAt(CustomerOf(trim(b)).membership, now)
         /\ result.op = "scan"
         /\ result.success
         /\ result.customerId = trim(b)
         /\ ProcessBarcodeEntry(b, s))
        => /\ result'.success
           /\ result'.type \in {"entry", "exit"}
           /\ (\/ /\ "isDuplicate" \in DOMAIN result'
                  /\ result'.isDuplicate
               \/ /\ "isDuplicate" \in DOMAIN scanHistory'[Len(scanHistory')]
                  /\ scanHistory'[Len(scanHistory')].isDuplicate)
              <=> now - (IF result.type = "entry" THEN result.entryTime
                         ELSE result.exitTime) < 5000
      ]_vars

\* C17: a visit that enters the ledger receives a visitId that no visit of
\* the ledger has or has had since startup, also after resetData.
C17_VisitIdNeverReused ==
    [][\A i \in 1..Len(visits') :
          (i > Len(visits) \/ visits'[i].visitId # visits[i].visitId)
              => visits'[i].visitId \notin issued
      ]_vars

\* C18: after a registerCustomer or updateCustomer call no two customers
\* share a customerId, every customer there was keeps its customerId, and a
\* registration under an id in use fails and adds no customer.
C18_CustomerIdStableAndUnique ==
    [][(result'.op \in {"register", "update"})
        => /\ Len(customers') >= Len(customers)
           /\ \A i \in 1..Len(customers) :
                 customers'[i].customerId = customers[i].customerId
           /\ \A i, j \in 1..Len(customers') :
                 i # j => customers'[i].customerId # customers'[j].customerId
           /\ Len(customers') > Len(customers)
                 => ~IsCustomer(customers'[Len(customers')].customerId)
      ]_vars

\* the sum of the durations of the visits at these ledger positions
RECURSIVE DurationSum(_)
DurationSum(positions) ==
    IF positions = {} THEN 0
    ELSE LET i == CHOOSE k \in positions : TRUE
         IN  visits[i].duration + DurationSum(positions \ {i})

\* C20: for every date the daily overview has totalVisits = the number of
\* ledger visits of that date, completedVisits = the number of those with
\* an exit time, currentlyInside = the number of those still open,
\* totalDuration = the sum of the durations of the completed ones, and
\* averageDuration = totalDuration / completedVisits rounded to the nearest
\* whole minute, 0 when no visit of the date is completed.
C20_DailyOverviewCounts ==
    \A d \in StatDates :
        LET overview == getVisitStatsByDate(State, d)
            ofDate == {i \in 1..Len(visits) : visits[i].date = d}
            closed == {i \in ofDate : visits[i].exitTime # Null}
        IN  /\ overview.totalVisits = Cardinality(ofDate)
            /\ overview.completedVisits = Cardinality(closed)
            /\ overview.currentlyInside = Cardinality(ofDate \ closed)
            /\ overview.currentlyInside = overview.totalVisits - overview.completedVisits
            /\ overview.totalDuration = DurationSum(closed)
            /\ IF closed = {} THEN overview.averageDuration = 0
               ELSE /\ 2 * overview.averageDuration * Cardinality(closed)
                          <= 2 * DurationSum(closed) + Cardinality(closed)
                    /\ 2 * DurationSum(closed) + Cardinality(closed)
                          < 2 * (overview.averageDuration + 1) * Cardinality(closed)

\* the day of startup has two completed visits whose durations average to
\* a half minute, and a visit still open
C20_Witness ==
    LET overview == getVisitStatsByDate(State, DateOf(T0))
    IN  /\ overview.completedVisits = 2
        /\ overview.currentlyInside = 1
        /\ overview.totalDuration % 2 = 1
        /\ overview.averageDuration = (overview.totalDuration + 1) \div 2

\* C19: a call of getDailyStatistics for the current day computes the
\* statistics from the ledger as it is and stores no snapshot; a call for
\* another day returns the stored snapshot only while it is younger than
\* 5 minutes and computes the statistics otherwise.
C19_CurrentDayNeverCached ==
    [][\A d \in StatArgs :
        GetDailyStatistics(d)
        => LET target == IF d = Null THEN now \div 86400000 ELSE d
               fresh == /\ "data" \in DOMAIN stats'
                        /\ stats'.data.date = target
                        /\ stats'.data.generatedAt = now
                        /\ stats'.data.overview = getVisitStatsByDate(State, target)
           IN  IF target = now \div 86400000
               THEN /\ fresh
                    /\ cachedStats'[target] = NoSnapshot
               ELSE IF /\ cachedStats[target] # NoSnapshot
                       /\ now - cachedStats[target].timestamp < 5 * 60 * 1000
                    THEN /\ \A f \in DOMAIN cachedStats[target].data :
                                /\ f \in DOMAIN stats'
                                /\ stats'[f] = cachedStats[target].data[f]
                         /\ cachedStats' = cachedStats
                    ELSE fresh
      ]_vars

\* entries of the visits of date d in local hour h, counted from the ledger
EntriesInHour(d, h) ==
    Cardinality({i \in 1..Len(visits) :
                    /\ visits[i].date = d
                    /\ ((visits[i].entryTime + tz) % MsPerDay) \div MsPerHour = h})

\* C21: the peak hour of a day is an hour 0..23 whose number of entries is
\* the maximum over the hours of the day, and of the hours that share the
\* maximum it is the lowest; a day without entries has peak hour 0 with 0
\* entries.
C21_PeakHourIsFirstMaximum ==
    \A d \in StatDates :
        LET peak == calculatePeakHour(getHourlyVisitStats(State, d, tz))
        IN  /\ peak.hour \in 0..23
            /\ peak.entries = EntriesInHour(d, peak.hour)
            /\ \A h \in 0..23 : EntriesInHour(d, h) <= peak.entries
            /\ \A h \in 0..(peak.hour - 1) : EntriesInHour(d, h) < peak.entries
            /\ (\A h \in 0..23 : EntriesInHour(d, h) = 0)
               => peak = [hour |-> 0, entries |-> 0]

\* the statistics just computed for a day on which two hours share the
\* maximum report the lower of them
C21_Witness ==
    /\ "data" \in DOMAIN stats
    /\ stats.data.generatedAt = now
    /\ stats.data.peakHour.entries > 0
    /\ stats.data.peakHour
           = calculatePeakHour(getHourlyVisitStats(State, stats.data.date, tz))
    /\ \E h \in 0..23 :
          /\ h > stats.data.peakHour.hour
          /\ EntriesInHour(stats.data.date, h) = stats.data.peakHour.entries

\* the ledger positions of the visits of date d
VisitsOn(d) == {i \in 1..Len(visits) : visits[i].date = d}

\* C22: for a day on which the customer of every visit is in the customer
\* table with membership type daily, monthly or annual, the three counts of
\* the membership breakdown add up to the number of visits of the day, open
\* and completed alike, and each count is the number of visits whose
\* customer has that type now.
C22_MembershipBreakdownSumsToTotal ==
    \A d \in StatDates :
        LET breakdown == getMembershipTypeStats(State, d)
            types == {"daily", "monthly", "annual"}
        IN  (\A i \in VisitsOn(d) :
                /\ IsCustomer(visits[i].customerId)
                /\ CustomerOf(visits[i].customerId).membership.type \in types)
            => /\ breakdown.daily + breakdown.monthly + breakdown.annual
                      = getVisitStatsByDate(State, d).totalVisits
               /\ getVisitStatsByDate(State, d).totalVisits
                      = Cardinality(VisitsOn(d))
               /\ \A type \in types :
                      breakdown[type]
                          = Cardinality({i \in VisitsOn(d) :
                                CustomerOf(visits[i].customerId).membership.type
                                    = type})

\* the member who entered as an annual member is a monthly member now; the
\* day has a completed visit and an open one and both count as monthly
C22_Witness ==
    /\ IsCustomer(Id(2))
    /\ CustomerOf(Id(2)).membership.type = "monthly"
    /\ \E i \in VisitsOn(DateOf(T0)) :
          visits[i].customerId = Id(2) /\ visits[i].exitTime = Null
    /\ \E i \in VisitsOn(DateOf(T0)) : visits[i].exitTime # Null
    /\ \A i \in VisitsOn(DateOf(T0)) : IsCustomer(visits[i].customerId)
    /\ getMembershipTypeStats(State, DateOf(T0)).monthly
           = Cardinality(VisitsOn(DateOf(T0)))
    /\ getMembershipTypeStats(State, DateOf(T0)).annual = 0

\* C23: in the service breakdown of a day every visit of the day is in
\* exactly one of the counts gym, spa and both, so the three counts add up
\* to the number of visits of the day, whatever services the entries were
\* made with.
C23_EveryVisitInOneBucket ==
    \A d \in StatDates :
        LET usage == getServiceStats(State, d)
        IN  usage.gym + usage.spa + usage.both
                = getVisitStatsByDate(State, d).totalVisits

\* the statistics a computation over the present ledger and customers
\* gives for date
FreshStatistics(date) ==
    getDailyStatistics(State, [d \in StatDates |-> NoSnapshot], date, now, tz).res

\* C24: a call of getDailyStatistics for a date other than today returns,
\* also when it is served from the cache, what a computation over the
\* present ledger and customers returns: an object { success, data } whose
\* data has the same date, overview, peak hour, membership breakdown,
\* service usage and number of current visitors.
C24_CachedEqualsFresh ==
    [][\A d \in StatArgs \ {Null} :
        (GetDailyStatistics(d) /\ ~isToday(d, now, tz))
        => /\ DOMAIN stats' = DOMAIN FreshStatistics(d)
           /\ stats'.success = FreshStatistics(d).success
           /\ \A f \in DOMAIN FreshStatistics(d).data \ {"generatedAt"} :
                 stats'.data[f] = FreshStatistics(d).data[f]]_vars

\* C24, the values alone: wherever the statistics of the day lie in the
\* returned object, they are those of the present ledger and customers
C24_CachedValuesEqualFresh ==
    [][\A d \in StatArgs \ {Null} :
        (GetDailyStatistics(d) /\ ~isToday(d, now, tz))
        => LET served == IF "data" \in DOMAIN stats' THEN stats'.data ELSE stats'
           IN  \A f \in DOMAIN FreshStatistics(d).data \ {"generatedAt"} :
                  served[f] = FreshStatistics(d).data[f]]_vars

\* the states the front desk can bring about with one call for customerId
\* now: a scan, a manual exit, an emergency override or a forced exit
FrontDeskOutcomes(customerId) ==
    { processBarcodeEntry(State, customerId, NoServices, now).st,
      manualEntryExit(State, customerId, "exit", NoServices, now).st,
      emergencyOverride(State, customerId, "drill", now).st,
      forceExitVisitor(State, customerId, NoReason, now).st }

\* C25: whenever a customer is flagged inside, with or without an open
\* visit in the ledger, one of the front-desk operations (scan, manual
\* exit, emergency override, forced exit) brings the flag to false.
C25_InsideFlagCanBeCleared ==
    \A i \in 1..Len(customers) :
        customers[i].currentVisit.isInside
        => \E out \in FrontDeskOutcomes(customers[i].customerId) :
              ~out.customers[i].currentVisit.isInside

\* the number of scan-history entries the call of this step records: one
\* for a successful scan or manual entry or exit, two for a successful
\* emergency override, none for a rejected call and for the clock
RecordedInStep ==
    IF now' # now \/ ~result'.success THEN 0
    ELSE IF result'.op = "emergency" THEN 2
    ELSE 1

\* C26: the scan history never holds more than 100 entries; a call appends
\* the scans it records at the end and, when that makes more than 100,
\* drops entries from the front, so the history is always the latest scans
\* in the order they were recorded (getScanHistory hands them out newest
\* first).
C26_HistoryKeepsLatestHundred ==
    [][LET kept == Len(scanHistory') - RecordedInStep
       IN  /\ Len(scanHistory') <= 100
           /\ Len(scanHistory') =
                  IF Len(scanHistory) + RecordedInStep > 100 THEN 100
                  ELSE Len(scanHistory) + RecordedInStep
           /\ SubSeq(scanHistory', 1, kept)
                  = SubSeq(scanHistory, Len(scanHistory) - kept + 1,
                           Len(scanHistory))
           /\ \A j \in (kept + 1)..Len(scanHistory') :
                  /\ scanHistory'[j].timestamp = now
                  /\ scanHistory'[j].customerId = result'.customerId
           /\ \A j \in 1..Len(scanHistory'), k \in 1..Len(scanHistory') :
                  j < k => scanHistory'[j].timestamp <= scanHistory'[k].timestamp
           /\ \A n \in {1, 10, 100} :
                  LET recent == getScanHistory(scanHistory', n)
                  IN  /\ Len(recent) = IF Len(scanHistory') < n
                                       THEN Len(scanHistory') ELSE n
                      /\ \A j \in 1..Len(recent) :
                            recent[j] = scanHistory'[Len(scanHistory') - j + 1]
      ]_vars

\* the history is full, its oldest entry is no longer the first scan after
\* startup, and its latest entry is the record of an emergency override
C26_Witness ==
    /\ Len(scanHistory) = 100
    /\ scanHistory[1].timestamp > T0
    /\ scanHistory[100].isEmergencyOverride
    /\ scanHistory[100].timestamp = now

\* C27: also when calls that can make an entry for the same customer are
\* started before the others have finished, no customer has two open
\* visits, and none has an open visit while flagged outside.
C27_OverlappingCallsOpenOneVisit ==
    \A i \in 1..Len(customers) :
        /\ Cardinality(OpenVisitsOf(customers[i].customerId)) <= 1
        /\ OpenVisitsOf(customers[i].customerId) # {}
           => customers[i].currentVisit.isInside

\* C28: a step that opens a visit for a customer whose subscription is
\* expired or suspended at that moment is an emergency override with a
\* reason; a scan and a manual entry never open one.
C28_OnlyOverrideAdmitsIneligible ==
    [][(/\ Len(visits') = Len(visits) + 1
        /\ IsCustomer(visits'[Len(visits')].customerId)
        /\ LET membership == CustomerOf(visits'[Len(visits')].customerId).membership
           IN  \/ isSubscriptionExpired(membership.endDate, now)
               \/ membership.status = "suspended")
       => /\ result'.op = "emergency"
          /\ result'.isEmergencyOverride
          /\ result'.reason # ""]_vars

\* C28 for the scan alone: no scan opens a visit for a customer whose
\* subscription is expired or suspended
C28_ScanNeverAdmitsIneligible ==
    [][(/\ Len(visits') = Len(visits) + 1
        /\ IsCustomer(visits'[Len(visits')].customerId)
        /\ LET membership == CustomerOf(visits'[Len(visits')].customerId).membership
           IN  \/ isSubscriptionExpired(membership.endDate, now)
               \/ membership.status = "suspended")
       => result'.op # "scan"]_vars

\* C29: a call of updateCustomer leaves the currentVisit of every customer
\* as it was, whatever the updates hold.
C29_UpdateKeepsCurrentVisit ==
    [][result'.op = "update"
       => /\ Len(customers') = Len(customers)
          /\ \A i \in 1..Len(customers) :
                customers'[i].currentVisit = customers[i].currentVisit]_vars

\* C29 for updates without a currentVisit field: the currentVisit of every
\* customer is left as it was
C29_ProfileUpdateKeepsCurrentVisit ==
    [][\A c \in AdminIds, u \in Updates :
          ("currentVisit" \notin DOMAIN u /\ UpdateCustomer(c, u))
          => /\ Len(customers') = Len(customers)
             /\ \A i \in 1..Len(customers) :
                   customers'[i].currentVisit = customers[i].currentVisit]_vars

\* C30: after resetData the ledger holds the seed visits alone, with the
\* exitTime and duration of the seed, every customer has the currentVisit
\* of the seed, and a customer is flagged inside exactly when the ledger
\* holds exactly one open visit of that customer.
C30_ResetRestoresStartup ==
    [][ResetData
       => /\ Len(visits') = Len(SeedVisits)
          /\ \A j \in 1..Len(SeedVisits) :
                /\ visits'[j].exitTime = SeedVisits[j].exitTime
                /\ visits'[j].duration = SeedVisits[j].duration
          /\ Len(customers') = Len(SeedCustomers)
          /\ \A i \in 1..Len(SeedCustomers) :
                /\ customers'[i].currentVisit = SeedCustomers[i].currentVisit
                /\ customers'[i].currentVisit.isInside
                      <=> Cardinality({j \in 1..Len(visits') :
                              /\ visits'[j].customerId = customers'[i].customerId
                              /\ visits'[j].exitTime = Null}) = 1]_vars

\* C30 for what resetData does bring back: the customer table and the
\* ledger have the length of the seed and the next visit id follows the
\* ledger
C30_ResetRestoresLengths ==
    [][ResetData
       => /\ Len(visits') = Len(SeedVisits)
          /\ Len(customers') = Len(SeedCustomers)
          /\ nextVisitId' = Len(SeedVisits) + 1
          /\ \A j \in 1..Len(SeedVisits) :
                visits'[j].visitId = SeedVisits[j].visitId]_vars

====
